---- MODULE Spec2Model ----
(***************************************************************************)
(* Model of the video splitter and merger nodes                            *)
(* (src/nodes/splitter.py, src/nodes/merger.py, src/video_nodes.py).       *)
(*                                                                         *)
(* Times are Python floats in the source.  Here every time is an integer   *)
(* number of ticks, Res ticks to the second, so that all inputs are binary *)
(* fractions the float arithmetic of the source handles exactly.  File     *)
(* names are sequences of one-character strings, built and parsed          *)
(* character by character.                                                 *)
(***************************************************************************)
EXTENDS Integers, Sequences, FiniteSets, TLC

\* ------------------------------------------------------------------ bounds
Res == 4
MaxDuration == 8
MaxSegLen == 5
MaxPaths == 3
MaxFade == 2
MaxClipLen == 3

\* ------------------------------------------------------- program constants
MinSegLen == 3
MinViable == 3
IndexWidth == 3
TimeWidth == 5

VARIABLES pc, err, opened,
          video_exists, duration, segment_length, overlap, prefix,
          start_times, idx, cur, segment_paths, written,
          segments_paths, fade_duration, segments, clips, concat_input,
          concat_padding, output_file, dir_created, warnings,
          frame_t, frame_opacity

splitVars == <<video_exists, duration, segment_length, overlap, prefix,
               start_times, idx, cur, segment_paths, written>>
mergeVars == <<segments_paths, fade_duration, segments, clips, concat_input,
               concat_padding, output_file, dir_created, warnings>>
maskVars == <<frame_t, frame_opacity>>
vars == <<pc, err, opened, splitVars, mergeVars, maskVars>>

\* ------------------------------------------------------------- characters
Digits == <<"0", "1", "2", "3", "4", "5", "6", "7", "8", "9">>

IsDigit(c) == c \in {"0", "1", "2", "3", "4", "5", "6", "7", "8", "9"}

DigitValue(c) == (CHOOSE d \in 1..10 : Digits[d] = c) - 1

RECURSIVE IntToStr(_)
\* str(n) for n >= 0: the decimal digits of n, most significant first
IntToStr(n) ==
  IF n < 10 THEN <<Digits[n + 1]>>
  ELSE IntToStr(n \div 10) \o <<Digits[(n % 10) + 1]>>

RECURSIVE ZeroPad(_, _)
\* the '0' flag of a format spec: pad on the left with zeros up to width w
ZeroPad(s, w) == IF Len(s) >= w THEN s ELSE ZeroPad(<<"0">> \o s, w)

\* f"{i:03d}"
FormatIndex(i) == ZeroPad(IntToStr(i), IndexWidth)

\* n / d rounded to the nearest integer, an exact tie going to the even one
\* (the correctly rounded '%.1f' conversion of an exactly represented value)
RoundHalfEven(n, d) ==
  LET lo  == n \div d
      rem == n % d
  IN  IF 2 * rem < d THEN lo
      ELSE IF 2 * rem > d THEN lo + 1
      ELSE IF lo % 2 = 0 THEN lo ELSE lo + 1

\* the digits "{x:05.1f}" prints for a value of t tenths
FormatTenths(t) ==
  ZeroPad(IntToStr(t \div 10) \o <<".", Digits[(t % 10) + 1]>>, TimeWidth)

\* the number of tenths of a second nearest to q ticks
RoundTenths(q) == RoundHalfEven(10 * q, Res)

\* a slip in the format spec: "{x:05.0f}" prints no decimal point
FormatTime_NoDecimal(q) == ZeroPad(IntToStr(RoundHalfEven(q, Res)), TimeWidth)

\* f"{x:05.1f}" for x = q / Res seconds
FormatTime(q) == FormatTenths(RoundTenths(q))

Mp4Ext == <<".", "m", "p", "4">>

\* f"{prefix_name}{i:03d}_{start:05.1f}-{end:05.1f}.mp4"
SegmentFileName(prefix_name, i, start, end) ==
  prefix_name \o FormatIndex(i) \o <<"_">> \o FormatTime(start)
              \o <<"-">> \o FormatTime(end) \o Mp4Ext

RECURSIVE IndexFrom(_, _, _)
\* the first index >= k at which character c occurs in s, 0 if there is none
IndexFrom(s, c, k) ==
  IF k > Len(s) THEN 0
  ELSE IF s[k] = c THEN k
  ELSE IndexFrom(s, c, k + 1)

RECURSIVE LastIndexUpTo(_, _, _)
\* the last index <= k at which character c occurs in s, 0 if there is none
LastIndexUpTo(s, c, k) ==
  IF k < 1 THEN 0
  ELSE IF s[k] = c THEN k
  ELSE LastIndexUpTo(s, c, k - 1)

\* os.path.basename / os.path.dirname: split at the last "/"
LastSlash(p) == LastIndexUpTo(p, "/", Len(p))

Basename(p) == SubSeq(p, LastSlash(p) + 1, Len(p))

Dirname(p) == SubSeq(p, 1, LastSlash(p) - 1)

\* os.path.join(d, name) for a relative name
PathJoin(d, name) == IF d = <<>> THEN name ELSE d \o <<"/">> \o name

\* folder_paths.get_output_directory()
OutputRoot == <<"o", "u", "t">>

\* VideoUtils.setup_output_path(prefix): (output_dir, prefix_name)
SetupOutputPath(p) == <<PathJoin(OutputRoot, Dirname(p)), Basename(p)>>

\* ------------------------------------------------- merger: filename parsing
\* the value of a run of decimal digits
RECURSIVE DigitsValue(_)
DigitsValue(s) ==
  IF s = <<>> THEN 0
  ELSE 10 * DigitsValue(SubSeq(s, 1, Len(s) - 1)) + DigitValue(s[Len(s)])

RECURSIVE Pow10(_)
Pow10(k) == IF k = 0 THEN 1 ELSE 10 * Pow10(k - 1)

\* a parsed time is the exact decimal num / den seconds; None has den = 0
None == [num |-> 0, den |-> 0]

\* float(ip + "." + fp)
ParseFloat(ip, fp) == [num |-> DigitsValue(ip \o fp), den |-> Pow10(Len(fp))]

\* numeric comparison of two parsed times
TimeLeq(a, b) == a.num * b.den <= b.num * a.den

TimeEq(a, b) == a.num * b.den = b.num * a.den

\* \d+ starting at p: the index just after the longest run of digits
RECURSIVE DigitRunEnd(_, _)
DigitRunEnd(s, p) ==
  IF p > Len(s) THEN p
  ELSE IF IsDigit(s[p]) THEN DigitRunEnd(s, p + 1)
  ELSE p

CharAt(s, p) == IF p \in 1..Len(s) THEN s[p] ELSE ""

\* r"_(\d+\.\d+)-(\d+\.\d+)\.mp4$" tried at position p; "$" also accepts one
\* trailing newline
MatchAt(s, p) ==
  LET e1 == DigitRunEnd(s, p + 1)
      e2 == DigitRunEnd(s, e1 + 1)
      e3 == DigitRunEnd(s, e2 + 1)
      e4 == DigitRunEnd(s, e3 + 1)
      tail == SubSeq(s, e4, Len(s))
  IN  /\ CharAt(s, p) = "_"
      /\ e1 > p + 1  /\ CharAt(s, e1) = "."
      /\ e2 > e1 + 1 /\ CharAt(s, e2) = "-"
      /\ e3 > e2 + 1 /\ CharAt(s, e3) = "."
      /\ e4 > e3 + 1
      /\ (tail = Mp4Ext \/ tail = Mp4Ext \o <<"\n">>)

RECURSIVE FirstMatchFrom(_, _)
\* re.search: the leftmost position >= p where the pattern matches, 0 if none
FirstMatchFrom(s, p) ==
  IF p > Len(s) THEN 0
  ELSE IF MatchAt(s, p) THEN p
  ELSE FirstMatchFrom(s, p + 1)

\* VideoMergerNode.extract_time_info: re.search takes the leftmost match
extract_time_info(filename) ==
  IF FirstMatchFrom(filename, 1) # 0
  THEN LET p  == FirstMatchFrom(filename, 1)
           e1 == DigitRunEnd(filename, p + 1)
           e2 == DigitRunEnd(filename, e1 + 1)
           e3 == DigitRunEnd(filename, e2 + 1)
           e4 == DigitRunEnd(filename, e3 + 1)
       IN  << ParseFloat(SubSeq(filename, p + 1, e1 - 1), SubSeq(filename, e1 + 1, e2 - 1)),
              ParseFloat(SubSeq(filename, e2 + 1, e3 - 1), SubSeq(filename, e3 + 1, e4 - 1)) >>
  ELSE <<None, None>>

\* ---------------------------------------------------------------- splitter
\* the characters of a string literal, for the inputs below
SegPrefix == <<"s", "p", "l", "i", "t", "/", "s", "e", "g", "_">>
TrickyPrefix == <<"a", "_", "1", ".", "5", "-", "2", ".", "5", ".", "m", "p", "4">>
Prefixes == {SegPrefix, TrickyPrefix}

\* int(x) for x = q / Res >= 0, in whole seconds
IntSeconds(q) == q \div Res

\* a slip in the bound: the stop value itself is still generated
Range_Inclusive(stop, stepv) ==
  LET n == IF stop < 0 THEN 0 ELSE (stop \div stepv) + 1
  IN  [k \in 1..n |-> (k - 1) * stepv]

\* list(range(0, stop, stepv)) for stepv > 0, in whole seconds
Range(stop, stepv) ==
  LET n == IF stop <= 0 THEN 0 ELSE ((stop - 1) \div stepv) + 1
  IN  [k \in 1..n |-> (k - 1) * stepv]

\* the Python float `end = min(start + segment_length, duration)`, in ticks
SegmentEnd(start, seglen, dur) ==
  IF start + seglen <= dur THEN start + seglen ELSE dur

\* a slip in the threshold: only intervals below one second are skipped
TooShort_OneSecond(start, end) == end - start < Res

\* `if end - start < 3: continue`
TooShort(start, end) == end - start < MinViable * Res

NoCur == [i |-> 0, start |-> 0, end |-> 0]

\* no frame of a mask has been evaluated
NoFrame == [num |-> 0, den |-> 0]

MaskIdle == frame_t = 0 /\ frame_opacity = NoFrame

MergeFresh ==
  /\ segments = <<>> /\ clips = <<>> /\ concat_input = <<>> /\ concat_padding = 0
  /\ output_file = <<>> /\ dir_created = FALSE /\ warnings = <<>>

MergeIdle == segments_paths = <<>> /\ fade_duration = 0 /\ MergeFresh

\* the documented scenario: duration=25, segment_length=10, overlap=2
ScenarioInput == <<25 * Res, 10 * Res, 2 * Res>>

SplitInputs ==
  { <<d, l, o>> : d \in 0..(MaxDuration * Res),
                  l \in (MinSegLen * Res)..(MaxSegLen * Res),
                  o \in 0..(MaxSegLen * Res) }
  \cup { ScenarioInput }

SplitInit ==
  /\ pc = "validate" /\ err = "none" /\ opened = {}
  /\ video_exists \in BOOLEAN
  /\ \E inp \in SplitInputs :
       /\ inp[3] < inp[2]
       /\ duration = inp[1] /\ segment_length = inp[2] /\ overlap = inp[3]
  /\ prefix \in Prefixes
  /\ start_times = <<>> /\ idx = 0 /\ cur = NoCur
  /\ segment_paths = <<>> /\ written = <<>>
  /\ MergeIdle
  /\ MaskIdle

\* splitter.py 115-116: the source path is validated before anything is opened
ValidateVideoPath ==
  /\ pc = "validate"
  /\ IF video_exists
     THEN pc' = "load" /\ err' = err
     ELSE pc' = "error" /\ err' = "InvalidInput"
  /\ UNCHANGED <<maskVars, opened, splitVars, mergeVars>>

\* splitter.py 125: VideoFileClip(video_path) succeeds
LoadVideo ==
  /\ pc = "load"
  /\ opened' = opened \cup {<<"video", 0>>}
  /\ pc' = "plan"
  /\ UNCHANGED <<maskVars, err, splitVars, mergeVars>>

\* splitter.py 125: VideoFileClip(video_path) raises
LoadVideoFails ==
  /\ pc = "load"
  /\ pc' = "error" /\ err' = "CodecFailure"
  /\ UNCHANGED <<maskVars, opened, splitVars, mergeVars>>

\* splitter.py 127-128: int(step) as the code computes it
IntStep(seglen, ovl) == IntSeconds(seglen - ovl)

\* splitter.py 126-132: step, start_times; range() raises ValueError when its
\* step argument int(step) is 0
PlanSegments ==
  /\ pc = "plan"
  /\ IF IntStep(segment_length, overlap) = 0
     THEN /\ pc' = "error" /\ err' = "ValueError"
          /\ UNCHANGED <<start_times, idx>>
     ELSE /\ start_times' = Range(IntSeconds(duration), IntStep(segment_length, overlap))
          /\ idx' = 0
          /\ pc' = "loop" /\ err' = err
  /\ UNCHANGED <<maskVars, opened, video_exists, duration, segment_length, overlap, prefix,
                 cur, segment_paths, written, mergeVars>>

\* splitter.py 134-140: next candidate start; a short interval is skipped
NextSegment ==
  /\ pc = "loop"
  /\ idx < Len(start_times)
  /\ LET start == start_times[idx + 1] * Res
         end   == SegmentEnd(start, segment_length, duration)
     IN  IF TooShort(start, end)
         THEN /\ idx' = idx + 1
              /\ UNCHANGED <<pc, cur>>
         ELSE /\ cur' = [i |-> idx, start |-> start, end |-> end]
              /\ pc' = "subclip"
              /\ idx' = idx
  /\ UNCHANGED <<maskVars, err, opened, video_exists, duration, segment_length, overlap, prefix,
                 start_times, segment_paths, written, mergeVars>>

\* splitter.py 142: video.subclip(start, end) succeeds
Subclip ==
  /\ pc = "subclip"
  /\ opened' = opened \cup {<<"segment", cur.i>>}
  /\ pc' = "write"
  /\ UNCHANGED <<maskVars, err, splitVars, mergeVars>>

\* splitter.py 142: video.subclip(start, end) raises
SubclipFails ==
  /\ pc = "subclip"
  /\ pc' = "error" /\ err' = "CodecFailure"
  /\ UNCHANGED <<maskVars, opened, splitVars, mergeVars>>

\* splitter.py 143-146
OutputPath(pfx, i, start, end) ==
  PathJoin(SetupOutputPath(pfx)[1],
           SegmentFileName(SetupOutputPath(pfx)[2], i, start, end))

\* splitter.py 148-157: segment.write_videofile(output_path, ...) succeeds
WriteSegment ==
  /\ pc = "write"
  /\ written' = Append(written, [i |-> cur.i, start |-> cur.start, end |-> cur.end,
                                 path |-> OutputPath(prefix, cur.i, cur.start, cur.end)])
  /\ pc' = "close"
  /\ UNCHANGED <<maskVars, err, opened, video_exists, duration, segment_length, overlap, prefix,
                 start_times, idx, cur, segment_paths, mergeVars>>

\* splitter.py 148-157: write_videofile raises
WriteSegmentFails ==
  /\ pc = "write"
  /\ pc' = "error" /\ err' = "CodecFailure"
  /\ UNCHANGED <<maskVars, opened, splitVars, mergeVars>>

\* splitter.py 158-159: segment.close(); segment_paths.append(output_path)
CloseSegment ==
  /\ pc = "close"
  /\ opened' = opened \ {<<"segment", cur.i>>}
  /\ segment_paths' = Append(segment_paths, written[Len(written)].path)
  /\ idx' = idx + 1
  /\ cur' = NoCur
  /\ pc' = "loop"
  /\ UNCHANGED <<maskVars, err, video_exists, duration, segment_length, overlap, prefix,
                 start_times, written, mergeVars>>

\* splitter.py 161-163: video.close() and return
FinishSplit ==
  /\ pc = "loop"
  /\ idx >= Len(start_times)
  /\ opened' = opened \ {<<"video", 0>>}
  /\ pc' = "done"
  /\ UNCHANGED <<maskVars, err, splitVars, mergeVars>>

SplitNext ==
  \/ ValidateVideoPath
  \/ LoadVideo
  \/ LoadVideoFails
  \/ PlanSegments
  \/ NextSegment
  \/ Subclip
  \/ SubclipFails
  \/ WriteSegment
  \/ WriteSegmentFails
  \/ CloseSegment
  \/ FinishSplit

SplitSpec == SplitInit /\ [][SplitNext]_vars

\* ------------------------------------------------------------------ merger
\* Segment = namedtuple("Segment", ["path", "start", "end"])
Segment(path, start, end) == [path |-> path, start |-> start, end |-> end]

\* the files the merger may be pointed at: the three segments the splitter
\* writes for the documented scenario, one path that does not exist, and two
\* existing files whose names carry no time range
ScenarioPath(i, startSec, endSec) ==
  OutputPath(SegPrefix, i, startSec * Res, endSec * Res)

PlainName == <<"c", "l", "i", "p", ".", "m", "p", "4">>
IntegerName == <<"s", "e", "g", "_", "0", "0", "4", "_", "8", "-", "1", "8", ".", "m", "p", "4">>
SegDir == PathJoin(OutputRoot, Dirname(SegPrefix))

FilePool ==
  { [path |-> ScenarioPath(0, 0, 10),  exists |-> TRUE,  duration |-> 10 * Res],
    [path |-> ScenarioPath(1, 8, 18),  exists |-> TRUE,  duration |-> 10 * Res],
    [path |-> ScenarioPath(2, 16, 25), exists |-> TRUE,  duration |-> 9 * Res],
    [path |-> ScenarioPath(3, 24, 34), exists |-> FALSE, duration |-> 0],
    [path |-> PathJoin(SegDir, PlainName),   exists |-> TRUE, duration |-> 5 * Res],
    [path |-> PathJoin(SegDir, IntegerName), exists |-> TRUE, duration |-> 10 * Res] }

PoolPaths == { f.path : f \in FilePool }

\* os.path.exists(path)
PathExists(path) == \E f \in FilePool : f.path = path /\ f.exists

\* VideoFileClip(path).duration, in ticks
FileDuration(path) == (CHOOSE f \in FilePool : f.path = path).duration

RECURSIVE JoinComma(_)
\* ",".join(paths)
JoinComma(paths) ==
  IF paths = <<>> THEN <<>>
  ELSE IF Len(paths) = 1 THEN paths[1]
  ELSE paths[1] \o <<",">> \o JoinComma(Tail(paths))

RECURSIVE SplitComma(_)
\* s.split(","): always at least one element, "" gives [""]
SplitComma(s) ==
  LET k == IndexFrom(s, ",", 1)
  IN  IF k # 0
      THEN <<SubSeq(s, 1, k - 1)>> \o SplitComma(SubSeq(s, k + 1, Len(s)))
      ELSE <<s>>

\* merger.py 116-122: does this path contribute a segment
IsValidSegment(path) ==
  /\ PathExists(path)
  /\ LET t == extract_time_info(Basename(path))
     IN  t[1] # None /\ t[2] # None

RECURSIVE DiscoverSegments(_)
\* merger.py 114-122: the segments appended, in the order of the path list
DiscoverSegments(paths) ==
  IF paths = <<>> THEN <<>>
  ELSE (IF IsValidSegment(paths[1])
        THEN LET t == extract_time_info(Basename(paths[1]))
             IN  <<Segment(paths[1], t[1], t[2])>>
        ELSE <<>>)
       \o DiscoverSegments(Tail(paths))

RECURSIVE WarnedPaths(_)
\* merger.py 116-118: the paths a "Warning: Segment not found" line is printed
\* for, in order; no other branch of the discovery loop prints anything
WarnedPaths(paths) ==
  IF paths = <<>> THEN <<>>
  ELSE (IF ~PathExists(paths[1]) THEN <<paths[1]>> ELSE <<>>)
       \o WarnedPaths(Tail(paths))

RECURSIVE InsertByStart(_, _)
\* x placed after every element whose start is <= x.start
InsertByStart(sorted, x) ==
  IF sorted = <<>> THEN <<x>>
  ELSE IF TimeLeq(sorted[1].start, x.start)
       THEN <<sorted[1]>> \o InsertByStart(Tail(sorted), x)
       ELSE <<x>> \o sorted

\* the sort left out: segments stay in discovery order
SortByStart_Unsorted(segs) == segs

RECURSIVE SortByStart(_)
\* merger.py 124: segments.sort(key=lambda x: x.start), a stable sort
SortByStart(segs) ==
  IF segs = <<>> THEN <<>>
  ELSE InsertByStart(SortByStart(SubSeq(segs, 1, Len(segs) - 1)), segs[Len(segs)])

\* the emptiness check left out
NoSegments_Never(segs) == FALSE

\* merger.py 126: `if not segments`
NoSegments(segs) == segs = <<>>

NoMask == [set |-> FALSE, fade_in |-> FALSE, fade_out |-> FALSE, fade_duration |-> 0]

\* merger.py 68-79: set_mask replaces whatever mask the clip carried
create_opacity_mask(clip, fade_in, fade_out, fd) ==
  [clip EXCEPT !.mask = [set |-> TRUE, fade_in |-> fade_in, fade_out |-> fade_out,
                         fade_duration |-> fd]]

\* the window tests left out: each ramp is applied over the whole clip
make_frame_Unguarded(clip_duration, fade_in, fade_out, fd, t) ==
  IF fade_in THEN [num |-> t, den |-> fd]
  ELSE IF fade_out THEN [num |-> clip_duration - t, den |-> fd]
  ELSE [num |-> 1, den |-> 1]

\* merger.py 71-77: the opacity multiplier at time t (ticks), as num / den
make_frame(clip_duration, fade_in, fade_out, fd, t) ==
  IF fade_in /\ t < fd THEN [num |-> t, den |-> fd]
  ELSE IF fade_out /\ t > clip_duration - fd THEN [num |-> clip_duration - t, den |-> fd]
  ELSE [num |-> 1, den |-> 1]

\* the opacity of a loaded clip at time t: its mask, or fully opaque without one
Opacity(clip, t) ==
  IF clip.mask.set
  THEN make_frame(clip.duration, clip.mask.fade_in, clip.mask.fade_out,
                  clip.mask.fade_duration, t)
  ELSE [num |-> 1, den |-> 1]

\* merger.py 139-148: the clip for position i (0-based) of total
LoadedClip(segment, i, total, fd) ==
  LET c0 == [segment |-> segment, duration |-> FileDuration(segment.path), mask |-> NoMask]
      c1 == IF i > 0 THEN create_opacity_mask(c0, TRUE, FALSE, fd) ELSE c0
      c2 == IF i < total - 1 THEN create_opacity_mask(c1, FALSE, TRUE, fd) ELSE c1
  IN  c2

\* merger.py 154: padding=-fade_duration
Padding(fd) == 0 - fd

MergePrefix == <<"m", "e", "r", "g", "e", "d", "/", "o", "u", "t", "p", "u", "t", "_">>

\* merger.py 104-110, 158-159: the output path, named after the first start
MergedPath(pfx, timestamp) ==
  PathJoin(PathJoin(OutputRoot, Dirname(pfx)),
           Basename(pfx) \o FormatTenths(RoundHalfEven(10 * timestamp.num, timestamp.den))
                         \o Mp4Ext)

\* fade_duration: half a second (the declared minimum) and the whole seconds
FadeDurations == { Res \div 2 } \cup { k * Res : k \in 1..MaxFade }

PathLists == UNION { [1..n -> PoolPaths] : n \in 0..MaxPaths }

SplitIdle ==
  /\ video_exists = FALSE /\ duration = 0 /\ segment_length = 0 /\ overlap = 0
  /\ start_times = <<>> /\ idx = 0 /\ cur = NoCur
  /\ segment_paths = <<>> /\ written = <<>>

MergeInit ==
  /\ pc = "mstart" /\ err = "none" /\ opened = {}
  /\ SplitIdle
  /\ prefix = MergePrefix
  /\ \E paths \in PathLists : segments_paths = JoinComma(paths)
  /\ fade_duration \in FadeDurations
  /\ MergeFresh
  /\ MaskIdle

\* merger.py 98-110: split the list, create the output directory
MergeStart ==
  /\ pc = "mstart"
  /\ IF Len(SplitComma(segments_paths)) = 0
     THEN pc' = "error" /\ err' = "No segment paths provided" /\ UNCHANGED dir_created
     ELSE pc' = "analyze" /\ err' = err /\ dir_created' = TRUE
  /\ UNCHANGED <<maskVars, opened, splitVars, segments_paths, fade_duration, segments, clips,
                 concat_input, concat_padding, output_file, warnings>>

\* merger.py 112-132: discover, sort, fail when nothing is left
AnalyzeSegments ==
  /\ pc = "analyze"
  /\ segments' = SortByStart(DiscoverSegments(SplitComma(segments_paths)))
  /\ warnings' = WarnedPaths(SplitComma(segments_paths))
  /\ IF NoSegments(segments')
     THEN pc' = "error" /\ err' = "No valid video segments found"
     ELSE pc' = "loadclips" /\ err' = err
  /\ UNCHANGED <<maskVars, opened, splitVars, segments_paths, fade_duration, clips,
                 concat_input, concat_padding, output_file, dir_created>>

\* merger.py 134-150: open the next segment and attach its masks
LoadClip ==
  /\ pc = "loadclips"
  /\ Len(clips) < Len(segments)
  /\ LET i == Len(clips)
     IN  /\ opened' = opened \cup {<<"clip", i>>}
         /\ clips' = Append(clips, LoadedClip(segments[i + 1], i, Len(segments), fade_duration))
  /\ UNCHANGED <<maskVars, pc, err, splitVars, segments_paths, fade_duration, segments,
                 concat_input, concat_padding, output_file, dir_created, warnings>>

\* merger.py 139: VideoFileClip(segment.path) raises
LoadClipFails ==
  /\ pc = "loadclips"
  /\ Len(clips) < Len(segments)
  /\ pc' = "error" /\ err' = "CodecFailure"
  /\ UNCHANGED <<maskVars, opened, splitVars, mergeVars>>

\* merger.py 152-155: concatenate_videoclips(clips, method="compose", padding=...)
Concatenate ==
  /\ pc = "loadclips"
  /\ Len(clips) = Len(segments)
  /\ concat_input' = clips
  /\ concat_padding' = Padding(fade_duration)
  /\ opened' = opened \cup {<<"final", 0>>}
  /\ pc' = "writefinal"
  /\ UNCHANGED <<maskVars, err, splitVars, segments_paths, fade_duration, segments, clips,
                 output_file, dir_created, warnings>>

\* merger.py 153: concatenate_videoclips raises
ConcatenateFails ==
  /\ pc = "loadclips"
  /\ Len(clips) = Len(segments)
  /\ pc' = "error" /\ err' = "CodecFailure"
  /\ UNCHANGED <<maskVars, opened, splitVars, mergeVars>>

\* merger.py 157-171: final_clip.write_videofile(output_file, ...) succeeds
WriteFinal ==
  /\ pc = "writefinal"
  /\ output_file' = MergedPath(prefix, segments[1].start)
  /\ pc' = "cleanup"
  /\ UNCHANGED <<maskVars, err, opened, splitVars, segments_paths, fade_duration, segments, clips,
                 concat_input, concat_padding, dir_created, warnings>>

\* merger.py 162: write_videofile raises
WriteFinalFails ==
  /\ pc = "writefinal"
  /\ pc' = "error" /\ err' = "CodecFailure"
  /\ UNCHANGED <<maskVars, opened, splitVars, mergeVars>>

\* merger.py 173-180: close every clip and the composite, return
Cleanup ==
  /\ pc = "cleanup"
  /\ opened' = (opened \ { <<"clip", i>> : i \in 0..(Len(clips) - 1) }) \ {<<"final", 0>>}
  /\ pc' = "done"
  /\ UNCHANGED <<maskVars, err, splitVars, mergeVars>>

MergeNext ==
  \/ MergeStart
  \/ AnalyzeSegments
  \/ LoadClip
  \/ LoadClipFails
  \/ Concatenate
  \/ ConcatenateFails
  \/ WriteFinal
  \/ WriteFinalFails
  \/ Cleanup

MergeSpec == MergeInit /\ [][MergeNext]_vars

\* ------------------------------------------------- the opacity mask alone
\* a clip of any duration up to MaxClipLen seconds, not yet masked
BareClip(d) == [segment |-> Segment(<<>>, None, None), duration |-> d, mask |-> NoMask]

\* every fade_duration > 0 on the tick grid, up to MaxFade seconds
AnyFadeDurations == 1..(MaxFade * Res)

MaskInit ==
  /\ pc = "mask" /\ err = "none" /\ opened = {}
  /\ SplitIdle
  /\ prefix = MergePrefix
  /\ segments_paths = <<>>
  /\ fade_duration \in AnyFadeDurations
  /\ \E d \in 0..(MaxClipLen * Res) : clips = <<BareClip(d)>>
  /\ segments = <<>> /\ concat_input = <<>> /\ concat_padding = 0
  /\ output_file = <<>> /\ dir_created = FALSE /\ warnings = <<>>
  /\ MaskIdle

\* merger.py 68-79: create_opacity_mask(clip, fade_in, fade_out, fade_duration)
CreateOpacityMask ==
  /\ pc = "mask"
  /\ \E fi \in BOOLEAN, fo \in BOOLEAN :
       clips' = <<create_opacity_mask(clips[1], fi, fo, fade_duration)>>
  /\ pc' = "masked"
  /\ UNCHANGED <<maskVars, err, opened, splitVars, segments_paths, fade_duration, segments,
                 concat_input, concat_padding, output_file, dir_created, warnings>>

\* merger.py 71-79: the mask is asked for its frame at a time t of the clip
MakeFrame ==
  /\ pc \in {"masked", "framed"}
  /\ \E t \in 0..clips[1].duration :
       /\ frame_t' = t
       /\ frame_opacity' = Opacity(clips[1], t)
  /\ pc' = "framed"
  /\ UNCHANGED <<err, opened, splitVars, mergeVars>>

MaskNext ==
  \/ CreateOpacityMask
  \/ MakeFrame

MaskSpec == MaskInit /\ [][MaskNext]_vars

\* ================================================================== claims
Planned == pc \in {"loop", "subclip", "write", "close", "done"}

Ended == pc \in {"done", "error"}

Merged == pc \in {"writefinal", "cleanup", "done"}

\* the candidate interval of the k-th start time (1-based), in ticks
Candidate(k) ==
  [start |-> start_times[k] * Res,
   end   |-> IF start_times[k] * Res + segment_length <= duration
             THEN start_times[k] * Res + segment_length ELSE duration]

Interval(w) == [start |-> w.start, end |-> w.end]

Intervals(ws) == [k \in 1..Len(ws) |-> Interval(ws[k])]

LongEnough(c) == c.end - c.start >= MinViable * Res

IsScenario == <<duration, segment_length, overlap>> = ScenarioInput

\* ---- C1
\* C1: for every duration, segment_length > overlap >= 0, split_video
\* completes without error (the codec and the source path behaving), the
\* emitted intervals start at 0, each starts at or before the end of the one
\* before it, and they cover [0, duration) up to a final remainder shorter
\* than 3 seconds.
C1_CompletesContiguousCovering ==
  (Ended /\ err \notin {"InvalidInput", "CodecFailure"}) =>
    /\ pc = "done"
    /\ written # <<>> => written[1].start = 0
    /\ \A k \in 2..Len(written) : written[k].start <= written[k - 1].end
    /\ \E r \in 0..(MinViable * Res - 1) :
         \A t \in 0..(duration - r - 1) :
           \E k \in 1..Len(written) : written[k].start <= t /\ t < written[k].end

\* ---- C2
\* C2: every emitted interval has length exactly segment_length, except
\* possibly the last emitted one, whose length is at most segment_length.
C2_OnlyLastShorter ==
  pc = "done" =>
    \A k \in 1..Len(written) :
      /\ written[k].end - written[k].start <= segment_length
      /\ k < Len(written) => written[k].end - written[k].start = segment_length

\* ---- C3
\* C3: no written segment is shorter than 3 seconds; the written segments
\* are exactly the candidates of length >= 3 seconds, in order, the shorter
\* ones being skipped without an error; duration=25, segment_length=10,
\* overlap=2 yields exactly (0,10), (8,18), (16,25).
C3_ShortDroppedLongWritten ==
  /\ \A k \in 1..Len(written) : written[k].end - written[k].start >= MinViable * Res
  /\ pc \in {"loop", "done"} =>
       /\ err = "none"
       /\ Intervals(written) = SelectSeq([k \in 1..idx |-> Candidate(k)], LongEnough)
  /\ pc = "done" => idx = Len(start_times)
  /\ (pc = "done" /\ IsScenario) =>
       Intervals(written) = << [start |-> 0,        end |-> 10 * Res],
                               [start |-> 8 * Res,  end |-> 18 * Res],
                               [start |-> 16 * Res, end |-> 25 * Res] >>

\* the scenario ran to the end and its fourth candidate (24,25) was dropped
C3_Witness ==
  /\ pc = "done" /\ IsScenario
  /\ Len(start_times) = 4 /\ Len(written) = 3
  /\ ~LongEnough(Candidate(4))

\* ---- C4
\* the parsed time p (num/den, den = 0 for None) is q ticks rounded to one
\* decimal place: a whole number of tenths, at most half a tenth away
IsRoundedToTenth(p, q) ==
  /\ p.den = 10
  /\ 2 * (10 * q - Res * p.num) <= Res
  /\ 2 * (Res * p.num - 10 * q) <= Res

\* C4: the file name built for every emitted segment is accepted by
\* extract_time_info, which returns (start, end) rounded to one decimal.
C4_RoundTrip ==
  \A k \in 1..Len(written) :
    LET t == extract_time_info(Basename(written[k].path))
    IN  /\ t # <<None, None>>
        /\ IsRoundedToTenth(t[1], written[k].start)
        /\ IsRoundedToTenth(t[2], written[k].end)

\* a segment was written whose end is not a whole number of tenths, under the
\* prefix that itself contains a time-range look-alike
C4_Witness ==
  /\ written # <<>>
  /\ prefix = TrickyPrefix
  /\ \E k \in 1..Len(written) : (10 * written[k].end) % Res # 0

\* ---- C5
\* the segments in discovery order
Discovered == DiscoverSegments(SplitComma(segments_paths))

\* C5: whatever the order of the supplied paths, all the valid segments reach
\* the concatenation step, in non-decreasing order of their parsed start.
C5_ConcatInStartOrder ==
  Merged =>
    /\ LET found == Discovered
       IN  /\ Len(concat_input) = Len(found)
           /\ \A k \in 1..Len(concat_input) :
                \E j \in 1..Len(found) : concat_input[k].segment = found[j]
    /\ \A i \in 1..Len(concat_input) : \A j \in (i + 1)..Len(concat_input) :
         TimeLeq(concat_input[i].segment.start, concat_input[j].segment.start)

\* clips were concatenated although they were supplied out of start order
C5_Witness ==
  /\ Merged
  /\ Len(concat_input) >= 2
  /\ LET found == Discovered
     IN  \E i \in 1..Len(found) : \E j \in (i + 1)..Len(found) :
           ~TimeLeq(found[i].start, found[j].start)

\* ---- C6
\* C6: in the envelope finally attached, every clip that is not first ramps
\* t/fade over t < fade, every clip that is not last ramps (duration-t)/fade
\* over t > duration-fade, and opacity is 1 elsewhere; an interior clip has
\* both ramps.  (Times where the two windows of one clip overlap are left
\* out: the claim does not say which ramp wins there.)
C6_EnvelopeByPosition ==
  Merged =>
    \A i \in 1..Len(concat_input) :
      LET c    == concat_input[i]
          fd   == fade_duration
          n    == Len(concat_input)
      IN  \A t \in 0..c.duration :
            LET inWin  == i > 1 /\ t < fd
                outWin == i < n /\ t > c.duration - fd
            IN  /\ (inWin /\ ~outWin) => TimeEq(Opacity(c, t), [num |-> t, den |-> fd])
                /\ (outWin /\ ~inWin) =>
                     TimeEq(Opacity(c, t), [num |-> c.duration - t, den |-> fd])
                /\ (~inWin /\ ~outWin) => TimeEq(Opacity(c, t), [num |-> 1, den |-> 1])

\* ---- C8
\* C8: when no supplied path survives the filtering (an empty list included)
\* the merge ends in an error, with no clip opened, no concatenation, no
\* encode and no output file.
C8_NoSegmentsFails ==
  (pc \notin {"mstart", "analyze"} /\ Discovered = <<>>) =>
    /\ pc = "error"
    /\ err \in {"No segment paths provided", "No valid video segments found"}
    /\ opened = {} /\ clips = <<>>
    /\ concat_input = <<>> /\ concat_padding = 0
    /\ output_file = <<>>

\* paths were supplied, none of them usable, and the merge has failed
C8_Witness ==
  /\ pc = "error" /\ err = "No valid video segments found"
  /\ Len(SplitComma(segments_paths)) >= 2
  /\ warnings # <<>>
  /\ Discovered = <<>>

\* ---- C9
\* C9: whenever split_video or merge_videos has ended, normally or with an
\* error, every media handle it opened has been closed.
C9_AllHandlesClosed == Ended => opened = {}

\* ---- C10
\* the start times as the claim computes them: k*step while k*step < duration,
\* each product truncated to whole seconds
ClaimedStarts ==
  LET step == segment_length - overlap
      n    == IF duration <= 0 THEN 0 ELSE ((duration - 1) \div step) + 1
  IN  [k \in 1..n |-> ((k - 1) * step) \div Res]

EndsAreClipped ==
  /\ pc \in {"subclip", "write", "close"} => Interval(cur) = Candidate(cur.i + 1)
  /\ \A k \in 1..Len(written) : Interval(written[k]) = Candidate(written[k].i + 1)

Mismatched ==
  LET paths == SplitComma(segments_paths)
  IN  { paths[k] : k \in { j \in 1..Len(paths) :
                           /\ PathExists(paths[j])
                           /\ extract_time_info(Basename(paths[j])) = <<None, None>> } }

\* a mismatched file is left out of the segments and is never opened or
\* handed to the concatenation, and the merge goes on with the matching ones
MismatchedSkipped ==
  LET bad == Mismatched
  IN  /\ \A k \in 1..Len(segments) : segments[k].path \notin bad
      /\ \A k \in 1..Len(clips) : clips[k].segment.path \notin bad
      /\ \A k \in 1..Len(concat_input) : concat_input[k].segment.path \notin bad
      /\ (bad # {} /\ Discovered # <<>> /\ pc = "error") => err = "CodecFailure"

\* C11: once discovery is over, every candidate file whose name does not
\* match the pattern has a warning logged for it, is skipped, is never opened
\* or composited, and the merge continues with the matching segments.
C11_MismatchWarnedAndSkipped ==
  pc \notin {"mstart", "analyze"} =>
    /\ \A b \in Mismatched : \E k \in 1..Len(warnings) : warnings[k] = b
    /\ MismatchedSkipped

\* ---- C12
\* C12: for every clip duration, every fade_duration > 0 (also one longer
\* than half the clip or than the whole clip) and every t in [0, duration],
\* the opacity multiplier of the mask lies in [0, 1].
C12_OpacityInUnitRange ==
  pc = "framed" =>
    /\ frame_opacity.den > 0
    /\ 0 <= frame_opacity.num
    /\ frame_opacity.num <= frame_opacity.den

\* a fade-out longer than the whole clip, evaluated inside its ramp
C12_Witness ==
  /\ pc = "framed"
  /\ fade_duration > clips[1].duration
  /\ clips[1].mask.fade_out /\ ~clips[1].mask.fade_in
  /\ frame_t > 0 /\ frame_t < clips[1].duration
  /\ frame_opacity = [num |-> clips[1].duration - frame_t, den |-> fade_duration]

====
